---- MODULE Spec2Model ----
(***************************************************************************)
(* The task API of RestApiWithLambdaAndApiGateway, in its three variants:  *)
(*   objective-1  (routes /tasks, /tasks/{id}; plain responses)             *)
(*   objective-2  (routes /health, /tasks; envelope, validation)            *)
(*   objective-3  (objective-2 plus priority, /test/error and the DLQ)      *)
(* One behaviour is one process running one variant: the module globals    *)
(* (ENVIRONMENT, API_STAGE, DLQ_URL, tasks) are the state, and each step   *)
(* is one complete call of lambda_handler.                                 *)
(*                                                                         *)
(* Python values are records tagged with their type.  Text that the code   *)
(* measures or transforms (strip, len, lower, startswith) is a sequence of *)
(* one-character strings; text the code only passes along (messages,       *)
(* codes, ids, configuration values) is a TLA+ string.  Timestamps         *)
(* (datetime.utcnow) are left out of tasks, responses and reports.         *)
(***************************************************************************)
EXTENDS Integers, Sequences, FiniteSets, TLC

VARIABLES
    variant,        \* which app.py this process runs: 1, 2 or 3
    ENVIRONMENT,    \* module global ENVIRONMENT
    API_STAGE,      \* module global API_STAGE
    DLQ_URL,        \* module global DLQ_URL (objective-3)
    tasks,          \* module global tasks: an insertion-ordered dict, as the sequence of its values
    issued,         \* the ids uuid4 has returned so far in this process
    request,        \* the event of the last call of lambda_handler
    response,       \* what that call returned
    raised,         \* the exception that reached lambda_handler's except clause in that call
    escaped,        \* whether an exception left lambda_handler in that call
    sent,           \* the calls of sqs.send_message made during that call
    created         \* the tasks carried by the 201 responses so far, in order

vars == <<variant, ENVIRONMENT, API_STAGE, DLQ_URL, tasks, issued, request,
          response, raised, escaped, sent, created>>

(***************************************************************************)
(* Bounds of the model.                                                    *)
(***************************************************************************)
\* how many ids uuid4 can hand out before creation is cut off
MaxTasks == 2

\* the ids uuid4 draws from
UuidPool == <<"u1", "u2", "u3", "u4">>

Uuids == {UuidPool[i] : i \in 1..MaxTasks}

(***************************************************************************)
(* Program constants.                                                      *)
(***************************************************************************)
MaxTitleLen == 100

MaxDescriptionLen == 500

\* random.random() in tenths: 0.0, 0.1, ..., 0.9
RandomDraws == 0..9

FailureThreshold == 7

(***************************************************************************)
(* Text: str.strip, str.lower, str.startswith, len.                        *)
(***************************************************************************)
Whitespace == {" ", "\t", "\n"}

Rep(c, n) == [i \in 1..n |-> c]

RECURSIVE lstrip(_)
lstrip(s) ==
    IF s = <<>> \/ Head(s) \notin Whitespace THEN s ELSE lstrip(Tail(s))

RECURSIVE rstrip(_)
rstrip(s) ==
    IF s = <<>> \/ s[Len(s)] \notin Whitespace THEN s
    ELSE rstrip(SubSeq(s, 1, Len(s) - 1))

strip(s) == rstrip(lstrip(s))

lower_char(c) ==
    CASE c = "H" -> "h"
      [] c = "I" -> "i"
      [] c = "G" -> "g"
      [] c = "L" -> "l"
      [] c = "O" -> "o"
      [] c = "W" -> "w"
      [] c = "M" -> "m"
      [] OTHER -> c

lower(s) == [i \in 1..Len(s) |-> lower_char(s[i])]

startswith(s, prefix) ==
    Len(s) >= Len(prefix) /\ SubSeq(s, 1, Len(prefix)) = prefix

T_low == <<"l", "o", "w">>

T_medium == <<"m", "e", "d", "i", "u", "m">>

T_high == <<"h", "i", "g", "h">>

T_exception == <<"e", "x", "c", "e", "p", "t", "i", "o", "n">>

T_dlq == <<"d", "l", "q">>

T_random == <<"r", "a", "n", "d", "o", "m">>

P_health == <<"/", "h", "e", "a", "l", "t", "h">>

P_tasks == <<"/", "t", "a", "s", "k", "s">>

P_tasks_slash == P_tasks \o <<"/">>

P_test_error == <<"/", "t", "e", "s", "t", "/", "e", "r", "r", "o", "r">>

(***************************************************************************)
(* Python values.                                                          *)
(***************************************************************************)
PyStr(s) == [type |-> "str", str |-> s, num |-> 0]

PyInt(n) == [type |-> "int", str |-> <<>>, num |-> n]

PyNone == [type |-> "NoneType", str |-> <<>>, num |-> 0]

PyList == [type |-> "list", str |-> <<>>, num |-> 0]

\* a key that a dict does not hold
Absent == [type |-> "absent", str |-> <<>>, num |-> 0]

\* the JSON object of a request body, by the keys the handlers read
PyDict(t, d, p, e) ==
    [type |-> "dict", title |-> t, description |-> d, priority |-> p, errorType |-> e]

EmptyDict == PyDict(Absent, Absent, Absent, Absent)

\* dict.get(key, default)
dict_get(v, default) == IF v.type = "absent" THEN default ELSE v

\* bool(v) of a JSON value
truthy(v) ==
    CASE v.type = "str" -> v.str # <<>>
      [] v.type = "int" -> v.num # 0
      [] v.type = "list" -> FALSE
      [] v.type = "dict" -> FALSE
      [] OTHER -> FALSE

\* an optional string that the code only tests and passes along
OptNone == [type |-> "NoneType", s |-> ""]

OptStr(x) == [type |-> "str", s |-> x]

falsy(o) == o.type = "NoneType" \/ o.s = ""

(***************************************************************************)
(* json.loads and json.dumps.  A text is the empty text, a text that is    *)
(* not JSON, or the JSON document of a value.                              *)
(***************************************************************************)
EmptyText == [type |-> "str", syntax |-> "empty", value |-> PyNone]

GarbageText == [type |-> "str", syntax |-> "garbage", value |-> PyNone]

json_dumps(v) == [type |-> "str", syntax |-> "json", value |-> v]

NoExc == [type |-> "none", msg |-> ""]

Exc(t, m) == [type |-> t, msg |-> m]

\* json.loads(s): the value, or the exception it raises
json_loads(s) ==
    IF s.type # "str"
      THEN [ok |-> FALSE, value |-> PyNone,
            exc |-> Exc("TypeError", "the JSON object must be str, bytes or bytearray, not NoneType")]
    ELSE IF s.syntax # "json"
      THEN [ok |-> FALSE, value |-> PyNone,
            exc |-> Exc("JSONDecodeError", "Expecting value: line 1 column 1 (char 0)")]
    ELSE [ok |-> TRUE, value |-> s.value, exc |-> NoExc]

\* event.get('body', '{}')
event_body(event) ==
    IF event.body.type = "absent" THEN json_dumps(EmptyDict) ELSE event.body

\* what calling .get or .strip on a value without that method raises
AttributeError(attr) == Exc("AttributeError", attr)

(***************************************************************************)
(* What a handler does: it returns a response or raises, and leaves the    *)
(* globals and the queue calls behind.  A handler is the set of its        *)
(* possible outcomes (uuid4, random.random and the queue are not decided   *)
(* by the program).                                                        *)
(***************************************************************************)
NoResponse == [statusCode |-> 0, headers |-> <<>>, body |-> EmptyText]

\* event['pathParameters']: missing, null, or a dict that may hold 'id'
PathParams(type, id) == [type |-> type, id |-> id]

NoRequest ==
    [httpMethod |-> "", path |-> <<>>, pathParameters |-> PathParams("absent", OptNone),
     body |-> Absent]

Return(resp, t, i, s) ==
    [kind |-> "return", response |-> resp, exc |-> NoExc, tasks |-> t, issued |-> i, sent |-> s]

Raise(e, t, i, s) ==
    [kind |-> "raise", response |-> NoResponse, exc |-> e, tasks |-> t, issued |-> i, sent |-> s]

\* what lambda_handler leaves: its return value, the exception its except
\* clause caught, and whether an exception left lambda_handler itself
Handled(resp, e, t, i, s) ==
    [response |-> resp, raised |-> e, escaped |-> FALSE, tasks |-> t, issued |-> i, sent |-> s]

Escaped(e, t, i, s) ==
    [response |-> NoResponse, raised |-> e, escaped |-> TRUE, tasks |-> t, issued |-> i, sent |-> s]

\* the slip tasks = {key: value}: the dict is replaced, not extended
dict_set_clobber(d, key, value) == <<value>>

\* the tasks dict: tasks[key] = value keeps the position of a key it holds
dict_set(d, key, value) ==
    IF \E k \in 1..Len(d) : d[k].id = key
      THEN [k \in 1..Len(d) |-> IF d[k].id = key THEN value ELSE d[k]]
      ELSE Append(d, value)

\* the slip of an id that does not change from call to call
uuid4_reused == {UuidPool[1]}

\* str(uuid.uuid4()): an id this process has not drawn before.  The code
\* never inspects or orders ids, so behaviours differ only by a renaming of
\* the ids drawn: the first unused id of the pool stands for all of them.
\* The set is empty once the pool is used up, which cuts creation off.
uuid4 ==
    {UuidPool[i] : i \in {j \in 1..MaxTasks :
        /\ UuidPool[j] \notin issued
        /\ \A k \in 1..(j - 1) : UuidPool[k] \in issued}}

\* the context object of the Lambda runtime, and a plain dict in its place
LambdaContext ==
    [kind |-> "LambdaContext", function_name |-> "task-api", aws_request_id |-> "req-1"]

DictContext == [kind |-> "dict", function_name |-> "", aws_request_id |-> ""]

hasattr(context) == context.kind = "LambdaContext"

(***************************************************************************)
(* objective-3/src/app.py                                                  *)
(***************************************************************************)
o3_headers ==
    ("Content-Type" :> "application/json")
    @@ ("Access-Control-Allow-Origin" :> "*")
    @@ ("Access-Control-Allow-Headers" :>
            "Content-Type,X-Amz-Date,Authorization,X-Api-Key,X-Amz-Security-Token")
    @@ ("Access-Control-Allow-Methods" :> "GET,POST,OPTIONS")
    @@ ("X-Environment" :> ENVIRONMENT)
    @@ ("X-API-Stage" :> API_STAGE)

o3_create_success_response(status_code, data) ==
    [statusCode |-> status_code,
     headers |-> o3_headers,
     body |-> json_dumps([success |-> TRUE,
                          data |-> data,
                          meta |-> [environment |-> ENVIRONMENT, stage |-> API_STAGE]])]

\* the slip of writing the defaults into the error object, not the configuration
o3_create_error_response_default_env(status_code, error_code, message, details) ==
    LET error == [code |-> error_code, message |-> message,
                  environment |-> "dev", stage |-> "v1"]
    IN  [statusCode |-> status_code,
         headers |-> o3_headers,
         body |-> json_dumps(
             [success |-> FALSE,
              error |-> IF details # <<>>
                          THEN error @@ ("details" :> [errors |-> details])
                          ELSE error])]

\* details = <<>> stands for details=None
o3_create_error_response(status_code, error_code, message, details) ==
    LET error == [code |-> error_code, message |-> message,
                  environment |-> ENVIRONMENT, stage |-> API_STAGE]
    IN  [statusCode |-> status_code,
         headers |-> o3_headers,
         body |-> json_dumps(
             [success |-> FALSE,
              error |-> IF details # <<>>
                          THEN error @@ ("details" :> [errors |-> details])
                          ELSE error])]

\* the queue client: the call is delivered or raises
sqs_send_message == {"ok", "ClientError"}

\* the slip of tagging every submission as an unhandled exception
o3_send_error_to_dlq_fixed_tag(error, context, event, error_type) ==
    IF falsy(DLQ_URL)
      THEN {[raised |-> FALSE, exc |-> NoExc, sent |-> <<>>]}
      ELSE
        LET error_message ==
                [errorType |-> error_type,
                 errorMessage |-> error.msg,
                 environment |-> ENVIRONMENT,
                 functionName |-> IF hasattr(context) THEN context.function_name ELSE "unknown",
                 requestId |-> IF hasattr(context) THEN context.aws_request_id ELSE "unknown",
                 event |-> [httpMethod |-> event.httpMethod,
                            path |-> event.path,
                            body |-> event.body]]
            call ==
                [QueueUrl |-> DLQ_URL.s,
                 MessageBody |-> json_dumps(error_message),
                 MessageAttributes |->
                     [ErrorType |-> [StringValue |-> "unhandled_exception", DataType |-> "String"],
                      Environment |-> [StringValue |-> ENVIRONMENT, DataType |-> "String"]]]
        IN  {[raised |-> FALSE, exc |-> NoExc, sent |-> <<[call |-> call, result |-> r]>>]
                : r \in sqs_send_message}

\* the slip of leaving out the try/except around the submission
o3_send_error_to_dlq_unguarded(error, context, event, error_type) ==
    IF falsy(DLQ_URL)
      THEN {[raised |-> FALSE, exc |-> NoExc, sent |-> <<>>]}
      ELSE
        LET error_message ==
                [errorType |-> error_type,
                 errorMessage |-> error.msg,
                 environment |-> ENVIRONMENT,
                 functionName |-> IF hasattr(context) THEN context.function_name ELSE "unknown",
                 requestId |-> IF hasattr(context) THEN context.aws_request_id ELSE "unknown",
                 event |-> [httpMethod |-> event.httpMethod,
                            path |-> event.path,
                            body |-> event.body]]
            call ==
                [QueueUrl |-> DLQ_URL.s,
                 MessageBody |-> json_dumps(error_message),
                 MessageAttributes |->
                     [ErrorType |-> [StringValue |-> error_type, DataType |-> "String"],
                      Environment |-> [StringValue |-> ENVIRONMENT, DataType |-> "String"]]]
        IN  {[raised |-> r # "ok",
              exc |-> IF r = "ok" THEN NoExc ELSE Exc(r, "queue unreachable"),
              sent |-> <<[call |-> call, result |-> r]>>]
                : r \in sqs_send_message}

o3_send_error_to_dlq(error, context, event, error_type) ==
    IF falsy(DLQ_URL)
      THEN {[raised |-> FALSE, exc |-> NoExc, sent |-> <<>>]}
      ELSE
        LET error_message ==
                [errorType |-> error_type,
                 errorMessage |-> error.msg,
                 environment |-> ENVIRONMENT,
                 functionName |-> IF hasattr(context) THEN context.function_name ELSE "unknown",
                 requestId |-> IF hasattr(context) THEN context.aws_request_id ELSE "unknown",
                 event |-> [httpMethod |-> event.httpMethod,
                            path |-> event.path,
                            body |-> event.body]]
            call ==
                [QueueUrl |-> DLQ_URL.s,
                 MessageBody |-> json_dumps(error_message),
                 MessageAttributes |->
                     [ErrorType |-> [StringValue |-> error_type, DataType |-> "String"],
                      Environment |-> [StringValue |-> ENVIRONMENT, DataType |-> "String"]]]
        IN  {[raised |-> FALSE, exc |-> NoExc, sent |-> <<[call |-> call, result |-> r]>>]
                : r \in sqs_send_message}

o3_health_check ==
    {Return(o3_create_success_response(200,
                [status |-> "healthy",
                 environment |-> ENVIRONMENT,
                 stage |-> API_STAGE,
                 version |-> "3.0.0",
                 features |-> [dlq |-> IF falsy(DLQ_URL) THEN "disabled" ELSE "enabled",
                               error_handling |-> "enabled"]]),
            tasks, issued, <<>>)}

o3_get_all_tasks ==
    LET task_list == tasks
    IN  {Return(o3_create_success_response(200,
                    [tasks |-> task_list, count |-> Len(task_list)]),
                tasks, issued, <<>>)}

\* the slip of >= for > in the title's length check
o3_validation_errors_off_by_one(title, description, priority) ==
    (IF title = <<>> THEN <<"Title is required">>
     ELSE IF Len(title) >= MaxTitleLen THEN <<"Title must be 100 characters or less">>
     ELSE <<>>)
    \o (IF Len(description) > MaxDescriptionLen
          THEN <<"Description must be 500 characters or less">> ELSE <<>>)
    \o (IF priority \notin {T_low, T_medium, T_high}
          THEN <<"Priority must be low, medium, or high">> ELSE <<>>)

\* lines 87-99: the violations of a stripped title, a stripped description
\* and a stripped, lower-cased priority, in order
o3_validation_errors(title, description, priority) ==
    (IF title = <<>> THEN <<"Title is required">>
     ELSE IF Len(title) > MaxTitleLen THEN <<"Title must be 100 characters or less">>
     ELSE <<>>)
    \o (IF Len(description) > MaxDescriptionLen
          THEN <<"Description must be 500 characters or less">> ELSE <<>>)
    \o (IF priority \notin {T_low, T_medium, T_high}
          THEN <<"Priority must be low, medium, or high">> ELSE <<>>)

o3_create_task(event) ==
    LET parsed == json_loads(event_body(event))
        body == parsed.value
        t == dict_get(body.title, PyStr(<<>>))
        d == dict_get(body.description, PyStr(<<>>))
        p == dict_get(body.priority, PyStr(T_medium))
        title == strip(t.str)
        description == strip(d.str)
        priority == lower(strip(p.str))
        validation_errors == o3_validation_errors(title, description, priority)
    IN  IF ~parsed.ok
          THEN IF parsed.exc.type = "JSONDecodeError"
                 THEN {Return(o3_create_error_response(400, "INVALID_JSON",
                                  "Request body must be valid JSON", <<>>),
                              tasks, issued, <<>>)}
                 ELSE {Raise(parsed.exc, tasks, issued, <<>>)}
        ELSE IF body.type # "dict"
          THEN {Raise(AttributeError("get"), tasks, issued, <<>>)}
        ELSE IF t.type # "str" \/ d.type # "str" \/ p.type # "str"
          THEN {Raise(AttributeError("strip"), tasks, issued, <<>>)}
        ELSE IF validation_errors # <<>>
          THEN {Return(o3_create_error_response(400, "VALIDATION_ERROR",
                           "Validation failed", validation_errors),
                       tasks, issued, <<>>)}
        ELSE {LET task == [id |-> task_id,
                           title |-> title,
                           description |-> description,
                           priority |-> priority,
                           status |-> "pending",
                           environment |-> ENVIRONMENT]
              IN  Return(o3_create_success_response(201,
                             [message |-> "Task created successfully", task |-> task]),
                         dict_set(tasks, task_id, task), issued \cup {task_id}, <<>>)
                : task_id \in uuid4}

o3_test_error_handling(event) ==
    LET parsed == json_loads(event_body(event))
        body == parsed.value
        error_type == dict_get(body.errorType, PyStr(T_exception))
    IN  IF ~parsed.ok
          THEN IF parsed.exc.type = "JSONDecodeError"
                 THEN {Return(o3_create_error_response(400, "INVALID_JSON",
                                  "Request body must be valid JSON", <<>>),
                              tasks, issued, <<>>)}
                 ELSE {Raise(parsed.exc, tasks, issued, <<>>)}
        ELSE IF body.type # "dict"
          THEN {Raise(AttributeError("get"), tasks, issued, <<>>)}
        ELSE IF error_type = PyStr(T_exception)
          THEN {Raise(Exc("Exception", "Test exception for DLQ testing"),
                      tasks, issued, <<>>)}
        ELSE IF error_type = PyStr(T_dlq)
          THEN {IF r.raised
                  THEN Raise(r.exc, tasks, issued, r.sent)
                  ELSE Return(o3_create_success_response(200,
                                  [message |-> "Test message sent to DLQ",
                                   dlq_url |-> DLQ_URL]),
                              tasks, issued, r.sent)
                  : r \in o3_send_error_to_dlq(Exc("Exception", "Manual DLQ test"),
                                               DictContext, event, "manual_dlq_test")}
        ELSE IF error_type = PyStr(T_random)
          THEN {IF draw < FailureThreshold
                  THEN Raise(Exc("Exception", "Random test failure"), tasks, issued, <<>>)
                  ELSE Return(o3_create_success_response(200,
                                  [message |-> "Random test passed",
                                   success_rate |-> "30%"]),
                              tasks, issued, <<>>)
                  : draw \in RandomDraws}
        ELSE {Return(o3_create_error_response(400, "INVALID_ERROR_TYPE",
                         "errorType must be: exception, dlq, or random", <<>>),
                     tasks, issued, <<>>)}

\* the slip of routing every other method on /tasks to create_task
o3_route_any_method(event) ==
    LET http_method == event.httpMethod
        path == event.path
    IN  IF http_method = "GET" /\ path = P_health THEN o3_health_check
        ELSE IF http_method = "GET" /\ path = P_tasks THEN o3_get_all_tasks
        ELSE IF path = P_tasks THEN o3_create_task(event)
        ELSE IF http_method = "POST" /\ path = P_test_error THEN o3_test_error_handling(event)
        ELSE {Return(o3_create_error_response(404, "NOT_FOUND", "Endpoint not found", <<>>),
                     tasks, issued, <<>>)}

\* lines 37-46: the handler the router selects
o3_route(event) ==
    LET http_method == event.httpMethod
        path == event.path
    IN  IF http_method = "GET" /\ path = P_health THEN o3_health_check
        ELSE IF http_method = "GET" /\ path = P_tasks THEN o3_get_all_tasks
        ELSE IF http_method = "POST" /\ path = P_tasks THEN o3_create_task(event)
        ELSE IF http_method = "POST" /\ path = P_test_error THEN o3_test_error_handling(event)
        ELSE {Return(o3_create_error_response(404, "NOT_FOUND", "Endpoint not found", <<>>),
                     tasks, issued, <<>>)}

\* the slip of answering with str(e)
o3_lambda_handler_leaky(event, context) ==
    UNION {
        IF h.kind = "return"
          THEN {Handled(h.response, NoExc, h.tasks, h.issued, h.sent)}
          ELSE {IF r.raised
                  THEN Escaped(r.exc, h.tasks, h.issued, h.sent \o r.sent)
                  ELSE Handled(o3_create_error_response(500, "INTERNAL_ERROR",
                                   h.exc.msg, <<>>),
                               h.exc, h.tasks, h.issued, h.sent \o r.sent)
                  : r \in o3_send_error_to_dlq(h.exc, context, event, "unhandled_exception")}
        : h \in o3_route(event)}

o3_lambda_handler(event, context) ==
    UNION {
        IF h.kind = "return"
          THEN {Handled(h.response, NoExc, h.tasks, h.issued, h.sent)}
          ELSE {IF r.raised
                  THEN Escaped(r.exc, h.tasks, h.issued, h.sent \o r.sent)
                  ELSE Handled(o3_create_error_response(500, "INTERNAL_ERROR",
                                   "Internal server error occurred", <<>>),
                               h.exc, h.tasks, h.issued, h.sent \o r.sent)
                  : r \in o3_send_error_to_dlq(h.exc, context, event, "unhandled_exception")}
        : h \in o3_route(event)}

(***************************************************************************)
(* objective-2/src/app.py                                                  *)
(***************************************************************************)
o2_headers ==
    ("Content-Type" :> "application/json")
    @@ ("Access-Control-Allow-Origin" :> "*")
    @@ ("Access-Control-Allow-Headers" :>
            "Content-Type,X-Amz-Date,Authorization,X-Api-Key,X-Amz-Security-Token")
    @@ ("Access-Control-Allow-Methods" :> "GET,POST,OPTIONS")
    @@ ("X-Environment" :> ENVIRONMENT)
    @@ ("X-API-Stage" :> API_STAGE)

o2_create_success_response(status_code, data) ==
    [statusCode |-> status_code,
     headers |-> o2_headers,
     body |-> json_dumps([success |-> TRUE,
                          data |-> data,
                          meta |-> [environment |-> ENVIRONMENT, stage |-> API_STAGE]])]

o2_create_error_response(status_code, error_code, message, details) ==
    LET error == [code |-> error_code, message |-> message,
                  environment |-> ENVIRONMENT, stage |-> API_STAGE]
    IN  [statusCode |-> status_code,
         headers |-> o2_headers,
         body |-> json_dumps(
             [success |-> FALSE,
              error |-> IF details # <<>>
                          THEN error @@ ("details" :> [errors |-> details])
                          ELSE error])]

o2_health_check ==
    {Return(o2_create_success_response(200,
                [status |-> "healthy",
                 environment |-> ENVIRONMENT,
                 stage |-> API_STAGE,
                 version |-> "2.0.0"]),
            tasks, issued, <<>>)}

o2_get_all_tasks ==
    LET task_list == tasks
    IN  {Return(o2_create_success_response(200,
                    [tasks |-> task_list, count |-> Len(task_list)]),
                tasks, issued, <<>>)}

\* lines 73-81
o2_validation_errors(title, description) ==
    (IF title = <<>> THEN <<"Title is required">>
     ELSE IF Len(title) > MaxTitleLen THEN <<"Title must be 100 characters or less">>
     ELSE <<>>)
    \o (IF Len(description) > MaxDescriptionLen
          THEN <<"Description must be 500 characters or less">> ELSE <<>>)

o2_create_task(event) ==
    LET parsed == json_loads(event_body(event))
        body == parsed.value
        t == dict_get(body.title, PyStr(<<>>))
        d == dict_get(body.description, PyStr(<<>>))
        title == strip(t.str)
        description == strip(d.str)
        validation_errors == o2_validation_errors(title, description)
    IN  IF ~parsed.ok
          THEN IF parsed.exc.type = "JSONDecodeError"
                 THEN {Return(o2_create_error_response(400, "INVALID_JSON",
                                  "Request body must be valid JSON", <<>>),
                              tasks, issued, <<>>)}
                 ELSE {Raise(parsed.exc, tasks, issued, <<>>)}
        ELSE IF body.type # "dict"
          THEN {Raise(AttributeError("get"), tasks, issued, <<>>)}
        ELSE IF t.type # "str" \/ d.type # "str"
          THEN {Raise(AttributeError("strip"), tasks, issued, <<>>)}
        ELSE IF validation_errors # <<>>
          THEN {Return(o2_create_error_response(400, "VALIDATION_ERROR",
                           "Validation failed", validation_errors),
                       tasks, issued, <<>>)}
        ELSE {LET task == [id |-> task_id,
                           title |-> title,
                           description |-> description,
                           status |-> "pending",
                           environment |-> ENVIRONMENT]
              IN  Return(o2_create_success_response(201,
                             [message |-> "Task created successfully", task |-> task]),
                         dict_set(tasks, task_id, task), issued \cup {task_id}, <<>>)
                : task_id \in uuid4}

\* lines 32-39
o2_route(event) ==
    LET http_method == event.httpMethod
        path == event.path
    IN  IF http_method = "GET" /\ path = P_health THEN o2_health_check
        ELSE IF http_method = "GET" /\ path = P_tasks THEN o2_get_all_tasks
        ELSE IF http_method = "POST" /\ path = P_tasks THEN o2_create_task(event)
        ELSE {Return(o2_create_error_response(404, "NOT_FOUND", "Endpoint not found", <<>>),
                     tasks, issued, <<>>)}

o2_lambda_handler(event, context) ==
    {IF h.kind = "return"
       THEN Handled(h.response, NoExc, h.tasks, h.issued, h.sent)
       ELSE Handled(o2_create_error_response(500, "INTERNAL_ERROR",
                        "Internal server error occurred", <<>>),
                    h.exc, h.tasks, h.issued, h.sent)
       : h \in o2_route(event)}

(***************************************************************************)
(* objective-1/src/app.py                                                  *)
(***************************************************************************)
o1_create_response(status_code, body) ==
    [statusCode |-> status_code,
     headers |->
        ("Content-Type" :> "application/json")
        @@ ("Access-Control-Allow-Origin" :> "*")
        @@ ("Access-Control-Allow-Headers" :>
                "Content-Type,X-Amz-Date,Authorization,X-Api-Key,X-Amz-Security-Token")
        @@ ("Access-Control-Allow-Methods" :> "GET,POST,OPTIONS"),
     body |-> json_dumps(body)]

o1_get_all_tasks ==
    LET task_list == tasks
    IN  {Return(o1_create_response(200, [tasks |-> task_list, count |-> Len(task_list)]),
                tasks, issued, <<>>)}

o1_create_task(event) ==
    LET parsed == json_loads(event_body(event))
        body == parsed.value
        title == dict_get(body.title, PyNone)
    IN  IF ~parsed.ok
          THEN IF parsed.exc.type = "JSONDecodeError"
                 THEN {Return(o1_create_response(400, [error |-> "Invalid JSON"]),
                              tasks, issued, <<>>)}
                 ELSE {Raise(parsed.exc, tasks, issued, <<>>)}
        ELSE IF body.type # "dict"
          THEN {Raise(AttributeError("get"), tasks, issued, <<>>)}
        ELSE IF ~truthy(title)
          THEN {Return(o1_create_response(400, [error |-> "Title is required"]),
                       tasks, issued, <<>>)}
        ELSE {LET task == [id |-> task_id,
                           title |-> title,
                           description |-> dict_get(body.description, PyStr(<<>>)),
                           status |-> "pending"]
              IN  Return(o1_create_response(201,
                             [message |-> "Task created successfully", task |-> task]),
                         dict_set(tasks, task_id, task), issued \cup {task_id}, <<>>)
                : task_id \in uuid4}

\* the slip of leaving out the check for a missing id
o1_get_task_unchecked(task_id) ==
    IF ~\E k \in 1..Len(tasks) : tasks[k].id = task_id.s
      THEN {Return(o1_create_response(404, [error |-> "Task not found"]),
                   tasks, issued, <<>>)}
    ELSE LET task == tasks[CHOOSE k \in 1..Len(tasks) : tasks[k].id = task_id.s]
         IN  {Return(o1_create_response(200, [task |-> task]), tasks, issued, <<>>)}

\* task_id is path_parameters.get('id'): None or a string
o1_get_task(task_id) ==
    IF falsy(task_id)
      THEN {Return(o1_create_response(400, [error |-> "Task ID is required"]),
                   tasks, issued, <<>>)}
    ELSE IF ~\E k \in 1..Len(tasks) : tasks[k].id = task_id.s
      THEN {Return(o1_create_response(404, [error |-> "Task not found"]),
                   tasks, issued, <<>>)}
    ELSE LET task == tasks[CHOOSE k \in 1..Len(tasks) : tasks[k].id = task_id.s]
         IN  {Return(o1_create_response(200, [task |-> task]), tasks, issued, <<>>)}

\* lines 22-30; path_parameters is event.get('pathParameters') or {}
o1_route(event) ==
    LET http_method == event.httpMethod
        path == event.path
        path_parameters ==
            IF event.pathParameters.type = "dict"
              THEN event.pathParameters ELSE PathParams("dict", OptNone)
    IN  IF http_method = "GET" /\ path = P_tasks THEN o1_get_all_tasks
        ELSE IF http_method = "POST" /\ path = P_tasks THEN o1_create_task(event)
        ELSE IF http_method = "GET" /\ startswith(path, P_tasks_slash)
          THEN o1_get_task(path_parameters.id)
        ELSE {Return(o1_create_response(404, [error |-> "Not Found"]), tasks, issued, <<>>)}

o1_lambda_handler(event, context) ==
    {IF h.kind = "return"
       THEN Handled(h.response, NoExc, h.tasks, h.issued, h.sent)
       ELSE Handled(o1_create_response(500, [error |-> "Internal Server Error"]),
                    h.exc, h.tasks, h.issued, h.sent)
       : h \in o1_route(event)}

(***************************************************************************)
(* The requests.                                                           *)
(***************************************************************************)
Event(m, p, pp, b) == [httpMethod |-> m, path |-> p, pathParameters |-> pp, body |-> b]

NoParams == PathParams("NoneType", OptNone)

\* titles: blank, one letter in blanks, over the limit
Titles == {PyStr(<<" ", " ">>), PyStr(<<" ", "a", "\t">>), PyStr(Rep("a", MaxTitleLen + 1))}

Descriptions == {Absent, PyStr(Rep("d", MaxDescriptionLen + 1))}

Priorities == {Absent, PyStr(<<"u", "r", "g", "e", "n", "t">>)}

\* at the limits: 100 and 500 characters inside blanks, a priority to strip and lower
LimitBody ==
    PyDict(PyStr(<<" ">> \o Rep("a", MaxTitleLen) \o <<" ">>),
           PyStr(<<"\n">> \o Rep("d", MaxDescriptionLen) \o <<" ">>),
           PyStr(<<" ", "H", "I", "G", "H", " ">>),
           Absent)

TaskBodies ==
    {PyDict(t, d, p, Absent) : t \in Titles, d \in Descriptions, p \in Priorities}
    \cup {LimitBody,
          EmptyDict,
          PyDict(PyStr(Rep(" ", MaxTitleLen + 1)), Absent, Absent, Absent),
          PyDict(PyInt(5), Absent, Absent, Absent),
          PyDict(PyNone, Absent, Absent, Absent),
          PyDict(PyStr(<<"a">>), PyNone, Absent, Absent),
          PyDict(PyStr(<<"a">>), Absent, PyInt(1), Absent),
          PyDict(PyStr(<<"a">>), Absent, PyNone, Absent)}

\* objective-1 reads the title as it is and checks nothing else
TaskBodies1 ==
    {EmptyDict,
     PyDict(PyStr(<<>>), Absent, Absent, Absent),
     PyDict(PyInt(0), Absent, Absent, Absent),
     PyDict(PyNone, Absent, Absent, Absent),
     PyDict(PyInt(5), Absent, Absent, Absent),
     PyDict(PyStr(<<" ", "a", "\t">>), PyStr(<<"d">>), Absent, Absent)}

ErrorBodies ==
    {PyDict(Absent, Absent, Absent, e)
        : e \in {PyStr(T_exception), PyStr(T_dlq), PyStr(T_random),
                 PyStr(<<"o", "t", "h", "e", "r">>), PyInt(1), PyNone}}

\* no body, a null body, and texts that are not a JSON object
OtherBodies ==
    {Absent, PyNone, EmptyText, GarbageText,
     json_dumps(PyList), json_dumps(PyStr(<<"x">>)), json_dumps(PyInt(5))}

P_other == <<"/", "o", "t", "h", "e", "r">>

P_tasksx == P_tasks \o <<"x">>

LookupParams ==
    {PathParams("absent", OptNone), NoParams,
     PathParams("dict", OptNone), PathParams("dict", OptStr("")),
     PathParams("dict", OptStr("never-issued"))}
    \cup {PathParams("dict", OptStr(u)) : u \in Uuids}

Events(v) ==
    {Event("POST", P_tasks, NoParams, b)
        : b \in OtherBodies
                \cup {json_dumps(o) : o \in IF v = 1 THEN TaskBodies1 ELSE TaskBodies}}
    \cup {Event("POST", P_test_error, NoParams, b)
        : b \in OtherBodies \cup {json_dumps(o) : o \in ErrorBodies \cup {EmptyDict}}}
    \cup {Event("GET", p, NoParams, b) : p \in {P_health, P_tasks}, b \in {Absent, GarbageText}}
    \cup {Event("GET", P_tasks_slash \o <<"x">>, pp, Absent) : pp \in LookupParams}
    \cup {Event("GET", P_tasks_slash, pp, Absent)
        : pp \in {PathParams("absent", OptNone), PathParams("dict", OptStr(""))}}
    \cup {Event(r[1], r[2], NoParams, b)
        : r \in {<<"DELETE", P_tasks>>, <<"GET", P_other>>, <<"POST", P_health>>,
                 <<"GET", P_tasksx>>, <<"PUT", P_tasks_slash>>},
          b \in {Absent, PyNone, GarbageText,
                 json_dumps(PyDict(PyStr(<<"a">>), Absent, Absent, Absent))}}

(***************************************************************************)
(* The process.                                                            *)
(***************************************************************************)
Init ==
    /\ variant \in {1, 2, 3}
    /\ \E cfg \in (IF variant = 1 THEN {<<"dev", "v1">>}
                                    ELSE {<<"dev", "v1">>, <<"prod", "v2">>}) :
          /\ ENVIRONMENT = cfg[1]
          /\ API_STAGE = cfg[2]
    /\ DLQ_URL \in (IF variant = 3
                      THEN {OptNone, OptStr("https://sqs.example/queue/dlq")}
                      ELSE {OptNone})
    /\ tasks = <<>>
    /\ issued = {}
    /\ request = NoRequest
    /\ response = NoResponse
    /\ raised = NoExc
    /\ escaped = FALSE
    /\ sent = <<>>
    /\ created = <<>>

\* one call of lambda_handler, from the event to what it leaves behind
Leave(event, o, task) ==
    /\ request' = event
    /\ response' = o.response
    /\ raised' = o.raised
    /\ escaped' = o.escaped
    /\ tasks' = o.tasks
    /\ issued' = o.issued
    /\ sent' = o.sent
    /\ created' = IF o.response.statusCode = 201 THEN Append(created, task) ELSE created
    /\ UNCHANGED <<variant, ENVIRONMENT, API_STAGE, DLQ_URL>>

Invoke1 ==
    /\ variant = 1
    /\ \E event \in Events(variant) : \E o \in o1_lambda_handler(event, LambdaContext) :
          Leave(event, o, o.response.body.value.task)

Invoke2 ==
    /\ variant = 2
    /\ \E event \in Events(variant) : \E o \in o2_lambda_handler(event, LambdaContext) :
          Leave(event, o, o.response.body.value.data.task)

Invoke3 ==
    /\ variant = 3
    /\ \E event \in Events(variant) : \E o \in o3_lambda_handler(event, LambdaContext) :
          Leave(event, o, o.response.body.value.data.task)

Next == Invoke1 \/ Invoke2 \/ Invoke3

Spec == Init /\ [][Next]_vars

(***************************************************************************)
(* Reading the last call.                                                  *)
(***************************************************************************)
Called == request # NoRequest

Routed(m, p) == request.httpMethod = m /\ request.path = p

\* the request body is the JSON text of an object
ObjectBody == request.body.type = "str" /\ request.body.syntax = "json"
                /\ request.body.value.type = "dict"

Envelope == response.body.value

\* a body field that is a string or is missing (then the default applies)
IsText(v) == v.type \in {"str", "absent"}

TextOf(v, default) == IF v.type = "absent" THEN default ELSE v.str

Trimmed(s) == strip(s)

ErrorReply(status, code) ==
    /\ response.statusCode = status
    /\ Envelope.success = FALSE
    /\ Envelope.error.code = code

Tag(k) == sent[k].call.MessageAttributes.ErrorType.StringValue

TriggerRequest(error_type) ==
    /\ variant = 3
    /\ Routed("POST", P_test_error)
    /\ ObjectBody
    /\ request.body.value.errorType = PyStr(error_type)

(***************************************************************************)
(* C1.  In objective-3, whenever the selected handler raised, the call     *)
(* returns status 500 with code INTERNAL_ERROR and the fixed message, the  *)
(* error object holds nothing but code, message, environment and stage,    *)
(* none of them the text of the exception; the same whether the queue is   *)
(* not configured, took the report or refused it.                          *)
(***************************************************************************)
C1_FailureBoundary ==
    (variant = 3 /\ Called /\ raised # NoExc) =>
        /\ ~escaped
        /\ response.statusCode = 500
        /\ Envelope =
              [success |-> FALSE,
               error |-> [code |-> "INTERNAL_ERROR",
                          message |-> "Internal server error occurred",
                          environment |-> ENVIRONMENT,
                          stage |-> API_STAGE]]
        /\ \A k \in DOMAIN Envelope.error : Envelope.error[k] # raised.msg

\* a handler raised and the queue refused the report
C1_Witness ==
    /\ variant = 3
    /\ raised # NoExc
    /\ Len(sent) = 1
    /\ sent[1].result = "ClientError"
    /\ response.statusCode = 500

(***************************************************************************)
(* C2 as claimed.  POST /test/error with errorType "exception" returns 500 *)
(* and makes exactly one submission tagged "unhandled_exception"; with     *)
(* errorType "dlq" it returns 200 and makes exactly one submission tagged  *)
(* "manual_dlq_test", and no exception reaches the failure boundary.       *)
(***************************************************************************)
C2_Original ==
    /\ TriggerRequest(T_exception) =>
          /\ response.statusCode = 500
          /\ Len(sent) = 1
          /\ Tag(1) = "unhandled_exception"
    /\ TriggerRequest(T_dlq) =>
          /\ response.statusCode = 200
          /\ raised = NoExc
          /\ Len(sent) = 1
          /\ Tag(1) = "manual_dlq_test"

(***************************************************************************)
(* C2 as amended.  The same, with the submission made exactly once when a  *)
(* dead-letter endpoint is configured and not at all when none is.         *)
(***************************************************************************)
C2_Amended ==
    /\ TriggerRequest(T_exception) =>
          /\ response.statusCode = 500
          /\ raised = Exc("Exception", "Test exception for DLQ testing")
          /\ IF falsy(DLQ_URL) THEN sent = <<>>
             ELSE Len(sent) = 1 /\ Tag(1) = "unhandled_exception"
    /\ TriggerRequest(T_dlq) =>
          /\ response.statusCode = 200
          /\ raised = NoExc
          /\ ~escaped
          /\ IF falsy(DLQ_URL) THEN sent = <<>>
             ELSE Len(sent) = 1 /\ Tag(1) = "manual_dlq_test"

\* the "exception" trigger, with an endpoint configured
C2_Witness ==
    /\ TriggerRequest(T_exception)
    /\ ~falsy(DLQ_URL)
    /\ response.statusCode = 500
    /\ Len(sent) = 1

(***************************************************************************)
(* C3.  send_error_to_dlq never raises: no exception leaves lambda_handler,*)
(* nothing is submitted when no endpoint is configured, and whatever the   *)
(* queue answers the "dlq" trigger returns its 200 confirmation and a      *)
(* caught failure its 500.                                                 *)
(***************************************************************************)
C3_ReporterNeverRaises ==
    (variant = 3 /\ Called) =>
        /\ ~escaped
        /\ falsy(DLQ_URL) => sent = <<>>
        /\ TriggerRequest(T_dlq) =>
              /\ raised = NoExc
              /\ response.statusCode = 200
              /\ Envelope.success = TRUE
              /\ Envelope.data = [message |-> "Test message sent to DLQ", dlq_url |-> DLQ_URL]
        /\ raised # NoExc => ErrorReply(500, "INTERNAL_ERROR")

\* the "dlq" trigger when the queue refuses the message
C3_Witness ==
    /\ TriggerRequest(T_dlq)
    /\ Len(sent) = 1
    /\ sent[1].result = "ClientError"
    /\ response.statusCode = 200

(***************************************************************************)
(* C4.  For a POST /tasks whose title, description and priority are text   *)
(* or missing, the violations are exactly the rules broken, in the order   *)
(* of the rules: title empty after trimming, else title over 100; the      *)
(* description over 500; (objective-3) the priority not low, medium or     *)
(* high.  A non-empty list gives 400 VALIDATION_ERROR with that list as    *)
(* details.errors, an empty one gives no validation error.                 *)
(***************************************************************************)
RuleOrder ==
    <<"Title is required",
      "Title must be 100 characters or less",
      "Description must be 500 characters or less",
      "Priority must be low, medium, or high">>

Broken(body) ==
    LET title == Trimmed(TextOf(body.title, <<>>))
        description == Trimmed(TextOf(body.description, <<>>))
        priority == lower(Trimmed(TextOf(body.priority, T_medium)))
    IN  {m \in {"Title is required"} : Len(title) = 0}
        \cup {m \in {"Title must be 100 characters or less"} : Len(title) > 100}
        \cup {m \in {"Description must be 500 characters or less"} : Len(description) > 500}
        \cup {m \in {"Priority must be low, medium, or high"} :
                variant = 3 /\ priority \notin {T_low, T_medium, T_high}}

ExpectedErrors(body) ==
    LET broken == Broken(body) IN SelectSeq(RuleOrder, LAMBDA m : m \in broken)

ValidationRequest ==
    /\ variant \in {2, 3}
    /\ Routed("POST", P_tasks)
    /\ ObjectBody
    /\ IsText(request.body.value.title)
    /\ IsText(request.body.value.description)
    /\ variant = 3 => IsText(request.body.value.priority)

C4_ValidationList ==
    ValidationRequest =>
        LET expected == ExpectedErrors(request.body.value)
        IN  IF expected = <<>>
              THEN response.statusCode = 201
              ELSE /\ ErrorReply(400, "VALIDATION_ERROR")
                   /\ Envelope.error.message = "Validation failed"
                   /\ Envelope.error.details = [errors |-> expected]

\* three rules broken at once, reported together
C4_Witness ==
    /\ ValidationRequest
    /\ variant = 3
    /\ response.statusCode = 400
    /\ Len(Envelope.error.details.errors) = 3

(***************************************************************************)
(* C5.  A POST /tasks with a trimmed title of 1 to 100 characters, a       *)
(* trimmed description of at most 500 and (objective-3) a valid or missing *)
(* priority returns 201 with a task whose id no earlier creation carried;  *)
(* no two stored tasks share an id and no creation replaced a stored task. *)
(***************************************************************************)
Ids(seq) == {seq[k].id : k \in 1..Len(seq)}

ValidCreation == ValidationRequest /\ Broken(request.body.value) = {}

C5_FreshIds ==
    variant \in {2, 3} =>
        /\ Cardinality(Ids(created)) = Len(created)
        /\ Cardinality(Ids(tasks)) = Len(tasks)
        /\ Len(tasks) = Len(created)
        /\ ValidCreation =>
              /\ response.statusCode = 201
              /\ Envelope.success = TRUE
              /\ Envelope.data.task = created[Len(created)]
              /\ Envelope.data.task.id
                    \notin Ids(SubSeq(created, 1, Len(created) - 1))

\* a second valid creation, at the limits of title and description
C5_Witness ==
    /\ ValidCreation
    /\ response.statusCode = 201
    /\ Len(created) = 2
    /\ Len(created[2].title) = 100
    /\ Len(created[2].description) = 500

(***************************************************************************)
(* C6 as claimed.  In objective-3 every POST /tasks, whatever its body,    *)
(* ends in 201 or in 400 with code VALIDATION_ERROR or INVALID_JSON; it    *)
(* never reaches the failure boundary and submits no error report.         *)
(***************************************************************************)
C6_Original ==
    (variant = 3 /\ Routed("POST", P_tasks)) =>
        /\ raised = NoExc
        /\ sent = <<>>
        /\ \/ response.statusCode = 201
           \/ ErrorReply(400, "VALIDATION_ERROR")
           \/ ErrorReply(400, "INVALID_JSON")

(***************************************************************************)
(* C7.  The store holds exactly the tasks the 201 responses carried, in    *)
(* order and unchanged, so only a successful creation changes it; and      *)
(* GET /tasks returns 200 with those tasks and their number.               *)
(***************************************************************************)
Listing == IF variant = 1 THEN Envelope ELSE Envelope.data

C7_StoreIsCreated ==
    /\ tasks = created
    /\ (Called /\ Routed("GET", P_tasks)) =>
          /\ response.statusCode = 200
          /\ Listing.count = Len(created)
          /\ Listing.tasks = created

\* the list after two creations
C7_Witness ==
    /\ variant = 3
    /\ Routed("GET", P_tasks)
    /\ response.statusCode = 200
    /\ Listing.count = 2
    /\ Len(created) = 2

(***************************************************************************)
(* C8.  In objective-1 a GET on a path under /tasks/ answers 400 when the  *)
(* id is empty or missing, 404 when no creation issued the id, and 200     *)
(* with exactly the created task of that id otherwise.                     *)
(***************************************************************************)
RequestedId ==
    IF request.pathParameters.type = "dict" THEN request.pathParameters.id ELSE OptNone

C8_Lookup ==
    (variant = 1 /\ request.httpMethod = "GET" /\ startswith(request.path, P_tasks_slash)) =>
        IF RequestedId.type = "NoneType" \/ RequestedId.s = ""
          THEN response.statusCode = 400
        ELSE IF RequestedId.s \notin Ids(created)
          THEN response.statusCode = 404
        ELSE /\ response.statusCode = 200
             /\ \E k \in 1..Len(created) :
                   /\ created[k].id = RequestedId.s
                   /\ Envelope = [task |-> created[k]]

\* an issued id looked up
C8_Witness ==
    /\ variant = 1
    /\ request.httpMethod = "GET"
    /\ startswith(request.path, P_tasks_slash)
    /\ response.statusCode = 200
    /\ Len(created) = 2

(***************************************************************************)
(* C9.  In objective-2 and objective-3 a call whose method and path are    *)
(* not a supported route returns 404 NOT_FOUND whatever its body, raises   *)
(* nothing, submits nothing and leaves the store as it was.                *)
(***************************************************************************)
Supported(v) ==
    {<<"GET", P_health>>, <<"GET", P_tasks>>, <<"POST", P_tasks>>}
    \cup (IF v = 3 THEN {<<"POST", P_test_error>>} ELSE {})

C9_UnknownRoute ==
    [][(variant \in {2, 3} /\ <<request'.httpMethod, request'.path>> \notin Supported(variant)) =>
          /\ response'.statusCode = 404
          /\ response'.body.value.success = FALSE
          /\ response'.body.value.error.code = "NOT_FOUND"
          /\ raised' = NoExc
          /\ ~escaped'
          /\ sent' = <<>>
          /\ tasks' = tasks
          /\ issued' = issued]_vars

\* DELETE /tasks with a body that is not JSON, a task in the store
C9_Witness ==
    /\ variant = 3
    /\ Routed("DELETE", P_tasks)
    /\ request.body = GarbageText
    /\ response.statusCode = 404
    /\ Len(tasks) > 0

(***************************************************************************)
(* C10.  In objective-2 and objective-3 every response is an envelope with *)
(* one variant: success with data and meta, or failure with error; it      *)
(* carries the configured environment and stage in the body and in the     *)
(* X-Environment and X-API-Stage headers; and its status is the one the    *)
(* handler chose for that outcome.                                         *)
(***************************************************************************)
StatusOf(code) ==
    CASE code = "NOT_FOUND" -> 404
      [] code = "INTERNAL_ERROR" -> 500
      [] code \in {"VALIDATION_ERROR", "INVALID_JSON", "INVALID_ERROR_TYPE"} -> 400
      [] OTHER -> 0

C10_Envelope ==
    (variant \in {2, 3} /\ Called /\ ~escaped) =>
        /\ response.headers["X-Environment"] = ENVIRONMENT
        /\ response.headers["X-API-Stage"] = API_STAGE
        /\ response.body.syntax = "json"
        /\ IF Envelope.success
             THEN /\ DOMAIN Envelope = {"success", "data", "meta"}
                  /\ Envelope.meta = [environment |-> ENVIRONMENT, stage |-> API_STAGE]
                  /\ response.statusCode =
                        (IF Routed("POST", P_tasks) THEN 201 ELSE 200)
             ELSE /\ DOMAIN Envelope = {"success", "error"}
                  /\ Envelope.error.environment = ENVIRONMENT
                  /\ Envelope.error.stage = API_STAGE
                  /\ response.statusCode = StatusOf(Envelope.error.code)

\* a failure response under the non-default configuration
C10_Witness ==
    /\ variant = 3
    /\ ENVIRONMENT = "prod"
    /\ response.statusCode = 500
    /\ Envelope.success = FALSE

====
